---- MODULE Spec2Model ----
(***************************************************************************)
(* Joint (dealer-less) verifiable secret sharing: package poly, joint.go.  *)
(*                                                                         *)
(* Every peer is a Dealer (one Promise, one State) and a Receiver (one     *)
(* index, one key, a list of Dealers).  A group element is modelled by its *)
(* discrete logarithm, a scalar of Z_Q, so that a public polynomial is the *)
(* sequence of the T committed coefficients and Check is the Feldman       *)
(* equation computed in Z_Q.  Promise, State, Response and PubPoly are not *)
(* part of joint.go; they are modelled after their contracts.              *)
(***************************************************************************)
EXTENDS Integers, Sequences, FiniteSets, TLC

\* ------------------------------------------------------------- bounds
Q == 5              \* order of the scalar field
MaxAdds == 4        \* entries appended to the Receivers' Dealers lists, in total
NumDealers == 2     \* Dealer objects built by the harness (n)

DealerIds == 0 .. NumDealers - 1

\* PolyInfo values explored: 1 <= T <= R <= N, N peers.
PolyInfos == { [T |-> 1, R |-> 1, N |-> 2],
               [T |-> 2, R |-> 2, N |-> 2] }

\* r.index = -1: no dealer received yet.
NoIndex == -1

VARIABLES
    info,       \* PolyInfo shared by every Dealer and Receiver
    corrupt,    \* the <<dealer, index>> whose share in the Promise is not the dealer's polynomial there
    index,      \* index[r]     : Receiver.index
    Secret,     \* Secret[r]    : Receiver.Secret
    Dealers,    \* Dealers[r]   : Receiver.Dealers, a sequence of Dealer ids
    addedAt,    \* addedAt[r][k]: the index argument of the call that appended Dealers[r][k]
    responses,  \* responses[d] : State.responses of Dealer d, index -> Response
    sent,       \* the Responses AddDealer has returned so far (held by the transport)
    calls,      \* calls[c]     : the AddDealer call goroutine c is in, statement by statement
    ret         \* the last call and what it returned

vars == <<info, corrupt, index, Secret, Dealers, addedAt, responses, sent, calls, ret>>

\* The peers: peer p holds the key pair p and is receiver number p of every Promise.
Receivers == 0 .. info.N - 1
Indices == 0 .. info.N - 1

\* The index arguments AddResponse is called with: the legal ones and one past the end.
IndexArgs == 0 .. info.N

\* --------------------------------------------------- scalars and PubPoly
RECURSIVE Pow(_, _)
Pow(x, k) == IF k = 0 THEN 1 ELSE (x * Pow(x, k - 1)) % Q

RECURSIVE Eval(_, _, _)
\* The coefficient sequence c evaluated at x, from coefficient k on.
Eval(c, x, k) == IF k > Len(c) THEN 0 ELSE (c[k] * Pow(x, k - 1) + Eval(c, x, k + 1)) % Q

\* The evaluation point of share number i.
Point(i) == (1 + i) % Q

\* PubPoly.InitNull: T commitments to zero.
InitNull(t) == [k \in 1 .. t |-> 0]

\* PubPoly.Add: the coefficient-wise sum.
Add(a, b) == [k \in 1 .. Len(a) |-> (a[k] + b[k]) % Q]

\* PubPoly.Check: the committed polynomial evaluated at the index equals the share.
Check(pub, i, share) == Eval(pub, Point(i), 1) = share % Q

\* PubPoly.Equal.
Equal(a, b) == a = b

\* ------------------------------------------------------------ Promise
\* The secret polynomials ConstructPromise picked, one per dealer, lowest degree first.
Coefficients == << <<1, 2>>, <<3, 1>>, <<2, 4>>, <<4, 3>> >>

PriPoly(d) == SubSeq(Coefficients[d + 1], 1, info.T)

\* Promise.PubPoly: the commitment to PriPoly.
PubPoly(d) == PriPoly(d)

\* The share the Promise of dealer d holds for receiver number i.
ShareOf(d, i) ==
    IF <<d, i>> \in corrupt THEN (Eval(PriPoly(d), Point(i), 1) + 1) % Q
    ELSE Eval(PriPoly(d), Point(i), 1)

NoResponse == [index |-> NoIndex, signer |-> NoIndex, promise |-> NoIndex]

\* Promise.ProduceResponse(index, key): the receiver recovers its share with its key and
\* checks it against the commitment.
ProduceResponse(d, i, key) ==
    IF i \notin Indices THEN [err |-> "OutOfRangeIndex", resp |-> NoResponse]
    ELSE IF key # i \/ ~Check(PubPoly(d), i, ShareOf(d, i))
         THEN [err |-> "ValidationFailure", resp |-> NoResponse]
         ELSE [err |-> "nil", resp |-> [index |-> i, signer |-> key, promise |-> d]]

\* -------------------------------------------------------------- State
\* State.AddResponse(i, response): the error, "nil" when the Response is recorded.
StateAddResponse(d, i, rsp) ==
    IF i \notin Indices THEN "OutOfRangeIndex"
    ELSE IF responses[d][i] # NoResponse THEN "DuplicateResponse"
    ELSE IF rsp.signer # i \/ rsp.promise # d THEN "ValidationFailure"
    ELSE "nil"

\* State.PromiseCertified.
PromiseCertified(d) ==
    IF Cardinality({i \in Indices : responses[d][i] # NoResponse}) >= info.R
    THEN "nil" ELSE "CertificationShortfall"

\* State.RevealShare(index, key).
RevealShare(d, i, key) ==
    IF PromiseCertified(d) # "nil" THEN [err |-> "NotCertified", share |-> 0]
    ELSE IF i \notin Indices \/ key # i THEN [err |-> "NoShare", share |-> 0]
    ELSE [err |-> "nil", share |-> ShareOf(d, i)]

\* ------------------------------------------------------------- Dealer
NoSecret == [Pub |-> <<>>, Share |-> 0, Index |-> NoIndex, used |-> <<>>]

\* What a call returned; at is what the error names (nothing, for most).
Ret(op, who, err, secret) ==
    [op |-> op, who |-> who, err |-> err, secret |-> secret, at |-> <<>>]

\* Certified that drops the State's answer and returns nil.
CertifiedAlways(d) == "nil"

\* Dealer.Certified.
Certified(d) == PromiseCertified(d)

\* AddResponse that hands the State the Response's own index, not the argument i.
DealerAddResponseOwnIndex(d, i, rsp) == StateAddResponse(d, rsp.index, rsp)

\* AddResponse that records the Response for any index of the matrix, taken or not.
DealerAddResponseOverwrite(d, i, rsp) == IF i \notin Indices THEN "OutOfRangeIndex" ELSE "nil"

\* Dealer.AddResponse: the error.
DealerAddResponse(d, i, rsp) == StateAddResponse(d, i, rsp)

AddResponse(d, i, rsp) ==
    LET e == DealerAddResponse(d, i, rsp) IN
    /\ responses' = IF e = "nil" THEN [responses EXCEPT ![d][i] = rsp] ELSE responses
    /\ ret' = Ret("AddResponse", d, e, NoSecret)
    /\ UNCHANGED <<info, corrupt, index, Secret, Dealers, addedAt, sent, calls>>

\* ----------------------------------------------------------- Receiver
\* AddDealer binding on every call.
BindIndexAlways(cur, i) == i

\* AddDealer without the bind.
BindIndexNever(cur, i) == cur

\* AddDealer, the bind: if r.index == -1 { r.index = index }.
BindIndex(cur, i) == IF cur = NoIndex THEN i ELSE cur

\* AddDealer without the test of the index.
WrongIndexNever(cur, i) == FALSE

\* AddDealer with the test written == for !=.
WrongIndexInverted(cur, i) == cur = i

\* AddDealer, the test: r.index != index.
WrongIndex(cur, i) == cur # i

RECURSIVE SumLen(_, _)
SumLen(f, S) == IF S = {} THEN 0
                ELSE LET x == CHOOSE y \in S : TRUE IN Len(f[x]) + SumLen(f, S \ {x})

\* Two goroutines, each making at most one AddDealer call, with no lock between them.
Goroutines == {"a", "b"}

\* A goroutine that has not called yet.  Of a call: the statement it is at, its receiver
\* and arguments, whether it found r.index == -1, whether it started while the other call
\* was running, and the r.Dealers and the entries' indices it read for its append.
Idle == [pc |-> "idle", r |-> 0, i |-> 0, d |-> 0, unbound |-> FALSE, overlap |-> FALSE,
         list |-> <<>>, added |-> <<>>]

\* The entries appended so far, over all Receivers.
TotalAdds == SumLen(Dealers, Receivers)

\* AddDealer that keeps the dealer only when ProduceResponse succeeded.
AddDealerOnlyValid(r, i, d) ==
    LET bound == BindIndex(index[r], i)
        pr == ProduceResponse(d, i, r)
    IN
    /\ index' = [index EXCEPT ![r] = bound]
    /\ IF WrongIndex(bound, i)
       THEN /\ ret' = Ret("AddDealer", r, "IndexMismatch", NoSecret)
            /\ UNCHANGED <<Dealers, addedAt, sent>>
       ELSE /\ TotalAdds < MaxAdds
            /\ Dealers' = IF pr.err = "nil" THEN [Dealers EXCEPT ![r] = Append(@, d)]
                          ELSE Dealers
            /\ addedAt' = IF pr.err = "nil" THEN [addedAt EXCEPT ![r] = Append(@, i)]
                          ELSE addedAt
            /\ sent' = IF pr.err = "nil" THEN sent \cup {pr.resp} ELSE sent
            /\ ret' = Ret("AddDealer", r, pr.err, NoSecret)
    /\ UNCHANGED <<info, corrupt, Secret, responses, calls>>

\* AddDealer with the append moved before the test of the index.
AddDealerAppendFirst(r, i, d) ==
    LET bound == BindIndex(index[r], i)
        pr == ProduceResponse(d, i, r)
    IN
    /\ index' = [index EXCEPT ![r] = bound]
    /\ TotalAdds < MaxAdds
    /\ Dealers' = [Dealers EXCEPT ![r] = Append(@, d)]
    /\ addedAt' = [addedAt EXCEPT ![r] = Append(@, i)]
    /\ IF WrongIndex(bound, i)
       THEN /\ ret' = Ret("AddDealer", r, "IndexMismatch", NoSecret)
            /\ UNCHANGED sent
       ELSE /\ sent' = IF pr.err = "nil" THEN sent \cup {pr.resp} ELSE sent
            /\ ret' = Ret("AddDealer", r, pr.err, NoSecret)
    /\ UNCHANGED <<info, corrupt, Secret, responses, calls>>

AddDealer(r, i, d) ==
    LET bound == BindIndex(index[r], i)
        pr == ProduceResponse(d, i, r)
    IN
    /\ index' = [index EXCEPT ![r] = bound]
    /\ IF WrongIndex(bound, i)
       THEN /\ ret' = Ret("AddDealer", r, "IndexMismatch", NoSecret)
            /\ UNCHANGED <<Dealers, addedAt, sent>>
       ELSE /\ TotalAdds < MaxAdds
            /\ Dealers' = [Dealers EXCEPT ![r] = Append(@, d)]
            /\ addedAt' = [addedAt EXCEPT ![r] = Append(@, i)]
            /\ sent' = IF pr.err = "nil" THEN sent \cup {pr.resp} ELSE sent
            /\ ret' = Ret("AddDealer", r, pr.err, NoSecret)
    /\ UNCHANGED <<info, corrupt, Secret, responses, calls>>

\* ProduceSharedSecret reading the share from the Promise, past State.RevealShare.
RevealUnchecked(r, k) == [err |-> "nil", share |-> ShareOf(Dealers[r][k], index[r])]

\* ProduceSharedSecret, the call r.Dealers[index].State.RevealShare(r.index, r.Key).
Reveal(r, k) == RevealShare(Dealers[r][k], index[r], r)

\* The tests of goodShare against T, one short.
EnoughSharesOffByOne(good) == good >= info.T - 1

\* ProduceSharedSecret, the two tests of goodShare against T.
EnoughShares(good) == good >= info.T

\* ProduceSharedSecret checking the aggregate at the index after the receiver's.
ConsistentNextIndex(pub, i, share) == Check(pub, i + 1, share)

\* ProduceSharedSecret without the final Check.
ConsistentUnchecked(pub, i, share) == TRUE

\* ProduceSharedSecret, the final pub.Check(r.index, share).
Consistent(pub, i, share) == Check(pub, i, share)

RECURSIVE ScanSkipFailed(_, _, _, _, _)
\* The loop passing over a dealer whose RevealShare fails and going on with the next.
ScanSkipFailed(r, k, share, pub, used) ==
    IF k > Len(Dealers[r]) \/ EnoughShares(Len(used))
    THEN [err |-> "nil", share |-> share, pub |-> pub, used |-> used, at |-> <<>>]
    ELSE LET rs == Reveal(r, k) IN
         IF rs.err # "nil"
         THEN ScanSkipFailed(r, k + 1, share, pub, used)
         ELSE ScanSkipFailed(r, k + 1, (share + rs.share) % Q,
                             Add(pub, PubPoly(Dealers[r][k])), Append(used, k))

RECURSIVE ScanAll(_, _, _, _, _)
\* The loop without the break: every dealer of the list is revealed and added.
ScanAll(r, k, share, pub, used) ==
    IF k > Len(Dealers[r])
    THEN [err |-> "nil", share |-> share, pub |-> pub, used |-> used, at |-> <<>>]
    ELSE LET rs == Reveal(r, k) IN
         IF rs.err # "nil"
         THEN [err |-> "RevealFailure", share |-> share, pub |-> pub, used |-> used,
               at |-> <<index[r], k - 1>>]
         ELSE ScanAll(r, k + 1, (share + rs.share) % Q,
                      Add(pub, PubPoly(Dealers[r][k])), Append(used, k))

RECURSIVE Scan(_, _, _, _, _)
\* The loop of ProduceSharedSecret from position k on, with the running share, the
\* running public polynomial and the positions that contributed so far.  A failing
\* RevealShare ends it with the error, which names r.index and the loop index (from 0).
Scan(r, k, share, pub, used) ==
    IF k > Len(Dealers[r]) \/ EnoughShares(Len(used))
    THEN [err |-> "nil", share |-> share, pub |-> pub, used |-> used, at |-> <<>>]
    ELSE LET rs == Reveal(r, k) IN
         IF rs.err # "nil"
         THEN [err |-> "RevealFailure", share |-> share, pub |-> pub, used |-> used,
               at |-> <<index[r], k - 1>>]
         ELSE Scan(r, k + 1, (share + rs.share) % Q,
                   Add(pub, PubPoly(Dealers[r][k])), Append(used, k))

\* Receiver.ProduceSharedSecret: the error and the SharedSecret.
SharedSecret(r) ==
    IF Len(Dealers[r]) < 1 THEN [err |-> "NoDealers", secret |-> NoSecret, at |-> <<>>]
    ELSE LET s == Scan(r, 1, 0, InitNull(info.T), <<>>) IN
         IF s.err # "nil" THEN [err |-> s.err, secret |-> NoSecret, at |-> s.at]
         ELSE IF ~EnoughShares(Len(s.used))
              THEN [err |-> "InsufficientShares", secret |-> NoSecret, at |-> <<>>]
         ELSE IF ~Consistent(s.pub, index[r], s.share)
              THEN [err |-> "ConsistencyFailure", secret |-> NoSecret, at |-> <<>>]
         ELSE [err |-> "nil",
               secret |-> [Pub |-> s.pub, Share |-> s.share, Index |-> index[r],
                           used |-> s.used],
               at |-> <<>>]

\* ProduceSharedSecret that also keeps what it returns in r.Secret.
ProduceSharedSecretStored(r) ==
    LET out == SharedSecret(r) IN
    /\ ret' = [Ret("ProduceSharedSecret", r, out.err, out.secret) EXCEPT !.at = out.at]
    /\ Secret' = [Secret EXCEPT ![r] = out.secret]
    /\ UNCHANGED <<info, corrupt, index, Dealers, addedAt, responses, sent, calls>>

ProduceSharedSecret(r) ==
    LET out == SharedSecret(r) IN
    /\ ret' = [Ret("ProduceSharedSecret", r, out.err, out.secret) EXCEPT !.at = out.at]
    /\ UNCHANGED <<info, corrupt, index, Secret, Dealers, addedAt, responses, sent, calls>>

\* ------------------------------------------------------ specification
\* Every object as its Init leaves it.  One share of dealer 0 may be bad where the dealer
\* can still be certified without the receiver it cheats (R < N).
Init ==
    /\ info \in PolyInfos
    /\ corrupt \in IF info.R < info.N THEN {{}, {<<0, 0>>}} ELSE {{}}
    /\ index = [r \in Receivers |-> NoIndex]
    /\ Secret = [r \in Receivers |-> NoSecret]
    /\ Dealers = [r \in Receivers |-> <<>>]
    /\ addedAt = [r \in Receivers |-> <<>>]
    /\ responses = [d \in DealerIds |-> [i \in Indices |-> NoResponse]]
    /\ sent = {}
    /\ calls = [c \in Goroutines |-> Idle]
    /\ ret = Ret("Init", 0, "nil", NoSecret)

Next ==
    \/ \E r \in Receivers, i \in NoIndex .. info.N - 1, d \in DealerIds : AddDealer(r, i, d)
    \/ \E d \in DealerIds, i \in IndexArgs, rsp \in sent : AddResponse(d, i, rsp)
    \/ \E r \in Receivers : ProduceSharedSecret(r)

Spec == Init /\ [][Next]_vars

\* -------------------------------------------- AddDealer, unsynchronized
\* AddDealer statement by statement, as two goroutines run it on Receivers they share.
\* A read or a write of r.index or of r.Dealers is one step; the append reads r.Dealers
\* and writes it back in two, so that a racing append can be lost.
Running(c) == calls[c].pc \notin {"idle", "done"}

Enter(c, r, i, d) ==
    /\ calls[c].pc = "idle"
    /\ calls' = [calls EXCEPT ![c] =
                   [Idle EXCEPT !.pc = "test", !.r = r, !.i = i, !.d = d,
                                !.overlap = \E o \in Goroutines \ {c} : Running(o)]]
    /\ UNCHANGED <<info, corrupt, index, Secret, Dealers, addedAt, responses, sent, ret>>

\* if r.index == -1
TestUnbound(c) ==
    /\ calls[c].pc = "test"
    /\ calls' = [calls EXCEPT ![c].unbound = index[calls[c].r] = NoIndex,
                              ![c].pc = IF index[calls[c].r] = NoIndex THEN "assign"
                                        ELSE "compare"]
    /\ UNCHANGED <<info, corrupt, index, Secret, Dealers, addedAt, responses, sent, ret>>

\* r.index = index
Assign(c) ==
    /\ calls[c].pc = "assign"
    /\ index' = [index EXCEPT ![calls[c].r] = calls[c].i]
    /\ calls' = [calls EXCEPT ![c].pc = "compare"]
    /\ UNCHANGED <<info, corrupt, Secret, Dealers, addedAt, responses, sent, ret>>

\* if r.index != index { return nil, errors.New(...) }
Compare(c) ==
    /\ calls[c].pc = "compare"
    /\ IF WrongIndex(index[calls[c].r], calls[c].i)
       THEN /\ calls' = [calls EXCEPT ![c].pc = "done"]
            /\ ret' = Ret("AddDealer", calls[c].r, "IndexMismatch", NoSecret)
       ELSE /\ calls' = [calls EXCEPT ![c].pc = "load"]
            /\ UNCHANGED ret
    /\ UNCHANGED <<info, corrupt, index, Secret, Dealers, addedAt, responses, sent>>

\* append(r.Dealers, dealer), the read of r.Dealers.
Load(c) ==
    /\ calls[c].pc = "load"
    /\ calls' = [calls EXCEPT ![c].pc = "store",
                              ![c].list = Dealers[calls[c].r],
                              ![c].added = addedAt[calls[c].r]]
    /\ UNCHANGED <<info, corrupt, index, Secret, Dealers, addedAt, responses, sent, ret>>

\* r.Dealers = append(...), the write, and return resp, err.
Store(c) ==
    LET r == calls[c].r
        pr == ProduceResponse(calls[c].d, calls[c].i, r)
    IN
    /\ calls[c].pc = "store"
    /\ Dealers' = [Dealers EXCEPT ![r] = Append(calls[c].list, calls[c].d)]
    /\ addedAt' = [addedAt EXCEPT ![r] = Append(calls[c].added, calls[c].i)]
    /\ sent' = IF pr.err = "nil" THEN sent \cup {pr.resp} ELSE sent
    /\ ret' = Ret("AddDealer", r, pr.err, NoSecret)
    /\ calls' = [calls EXCEPT ![c].pc = "done"]
    /\ UNCHANGED <<info, corrupt, index, Secret, responses>>

NextRace ==
    \/ \E c \in Goroutines, r \in Receivers, i \in Indices, d \in DealerIds : Enter(c, r, i, d)
    \/ \E c \in Goroutines : TestUnbound(c)
    \/ \E c \in Goroutines : Assign(c)
    \/ \E c \in Goroutines : Compare(c)
    \/ \E c \in Goroutines : Load(c)
    \/ \E c \in Goroutines : Store(c)

\* Two AddDealer calls with indices of the matrix, on fresh Receivers, interleaved freely.
SpecRace == Init /\ [][NextRace]_vars

\* ---------------------------------------------------- the full exchange
\* The exchange the harness drives: every Receiver r adds every Dealer under its own
\* index r, every Response returned goes back, once, to its Dealer under that index, and
\* the Receivers produce their SharedSecret when all of it is done.
ExchangeDone ==
    \A r \in Receivers, d \in DealerIds :
        d \in {Dealers[r][k] : k \in DOMAIN Dealers[r]} /\ responses[d][r] # NoResponse

ExchangeAddDealer(r, d) ==
    /\ d \notin {Dealers[r][k] : k \in DOMAIN Dealers[r]}
    /\ AddDealer(r, r, d)

ExchangeAddResponse(rsp) ==
    /\ responses[rsp.promise][rsp.index] = NoResponse
    /\ AddResponse(rsp.promise, rsp.index, rsp)

ExchangeProduce(r) ==
    /\ ExchangeDone
    /\ ProduceSharedSecret(r)

InitExchange == Init /\ corrupt = {}

NextExchange ==
    \/ \E r \in Receivers, d \in DealerIds : ExchangeAddDealer(r, d)
    \/ \E rsp \in sent : ExchangeAddResponse(rsp)
    \/ \E r \in Receivers : ExchangeProduce(r)

\* The harness runs every call of the exchange to completion: no call is left pending.
SpecExchange == InitExchange /\ [][NextExchange]_vars /\ WF_vars(NextExchange)

\* ------------------------------------------------------------- helpers
Range(f) == {f[k] : k \in DOMAIN f}

NoDuplicates(f) == \A j, k \in DOMAIN f : f[j] = f[k] => j = k

\* The entries of receiver r's list whose RevealShare succeeds now.
GoodEntries(r) == {k \in DOMAIN Dealers[r] : RevealShare(Dealers[r][k], index[r], r).err = "nil"}

\* The Response that receiver number i signs for the Promise of dealer d.
ValidResponse(d, i) == [index |-> i, signer |-> i, promise |-> d]

\* The valid Responses State d holds, by index.
ValidCount(d) == Cardinality({i \in Indices : responses[d][i] = ValidResponse(d, i)})

RECURSIVE SumPub(_, _, _)
\* The sum of the public polynomials of the dealers at positions pos[k..] of r's list.
SumPub(r, pos, k) ==
    IF k > Len(pos) THEN [j \in 1 .. info.T |-> 0]
    ELSE LET rest == SumPub(r, pos, k + 1)
             p == PubPoly(Dealers[r][pos[k]])
         IN [j \in 1 .. info.T |-> (p[j] + rest[j]) % Q]

RECURSIVE SumShare(_, _, _)
\* The sum of the shares the dealers at positions pos[k..] of r's list hold for r's index.
SumShare(r, pos, k) ==
    IF k > Len(pos) THEN 0
    ELSE (ShareOf(Dealers[r][pos[k]], index[r]) + SumShare(r, pos, k + 1)) % Q

\* -------------------------------------------------------------- claims

\* C1: the first AddDealer(i, d) of a Receiver binds its index to i, and every later
\* AddDealer(j, d') with j # i returns the index-mismatch error.
C1_FirstIndexBinds ==
    [][\A r \in Receivers, j \in NoIndex .. info.N - 1, d \in DealerIds :
         ret'.op = "AddDealer" /\ AddDealer(r, j, d) =>
            /\ (addedAt[r] = <<>> => index'[r] = j)
            /\ (addedAt[r] # <<>> /\ j # addedAt[r][1] => ret'.err = "IndexMismatch")]_vars

\* C2 as stated: on a Receiver bound to i, AddDealer(i, d') returns no error.
C2_SameIndexSucceeds ==
    [][\A r \in Receivers, d \in DealerIds :
         index[r] # NoIndex /\ ret'.op = "AddDealer" /\ AddDealer(r, index[r], d) =>
            ret'.err = "nil"]_vars

\* C2 as amended: on a Receiver bound to i, AddDealer(i, d') never returns the
\* index-mismatch error and always appends d'; it returns an error exactly when the
\* Promise of d' does not validate for (i, key): i is not the key's index, or the share is bad.
C2_SameIndexNoMismatch ==
    [][\A r \in Receivers, d \in DealerIds :
         index[r] # NoIndex /\ ret'.op = "AddDealer" /\ AddDealer(r, index[r], d) =>
            /\ ret'.err # "IndexMismatch"
            /\ Dealers'[r] = Append(Dealers[r], d)
            /\ index'[r] = index[r]
            /\ (ret'.err = "nil" <=> (index[r] = r /\ <<d, index[r]>> \notin corrupt))]_vars

\* A bound Receiver was called again with its own index and got ProduceResponse's error.
C2_Witness ==
    /\ ret.op = "AddDealer" /\ ret.err = "ValidationFailure"
    /\ Len(addedAt[ret.who]) >= 2
    /\ \A k \in DOMAIN addedAt[ret.who] : addedAt[ret.who][k] = index[ret.who]

\* C3: every SharedSecret ProduceSharedSecret returns satisfies Pub.Check(Index, Share),
\* with Index the receiver's bound index, Pub the sum of the contributing dealers' public
\* polynomials and Share the sum of the shares those dealers hold for that index.
C3_SecretChecks ==
    ret.op = "ProduceSharedSecret" /\ ret.err = "nil" =>
        LET s == ret.secret
            r == ret.who
        IN /\ Check(s.Pub, s.Index, s.Share)
           /\ s.Index = index[r]
           /\ Len(s.used) >= info.T
           /\ s.Pub = SumPub(r, s.used, 1)
           /\ s.Share = SumShare(r, s.used, 1)

\* A SharedSecret over two different dealers was returned with T = 2.
C3_Witness ==
    /\ ret.op = "ProduceSharedSecret" /\ ret.err = "nil"
    /\ info.T = 2
    /\ Len(ret.secret.used) = 2
    /\ Dealers[ret.who][1] # Dealers[ret.who][2]

\* C4: two receivers that collected the same set of dealers (each dealer once, in any
\* order, at least T of them) get SharedSecrets with equal public polynomials, and the
\* (index, share) of each passes Check against the public polynomial of the other.
C4_SameSetSamePub ==
    \A r1, r2 \in Receivers :
        LET o1 == SharedSecret(r1)
            o2 == SharedSecret(r2)
        IN ( /\ r1 # r2
             /\ Range(Dealers[r1]) = Range(Dealers[r2])
             /\ NoDuplicates(Dealers[r1]) /\ NoDuplicates(Dealers[r2])
             /\ Cardinality(Range(Dealers[r1])) >= info.T
             /\ o1.err = "nil" /\ o2.err = "nil" )
           => /\ Equal(o1.secret.Pub, o2.secret.Pub)
              /\ Check(o1.secret.Pub, o2.secret.Index, o2.secret.Share)
              /\ Check(o2.secret.Pub, o1.secret.Index, o1.secret.Share)

\* C5: Certified returns an error while fewer than R valid Responses for distinct indices
\* are accepted, success once there are R, and after a success no AddResponse call
\* (valid, invalid or duplicate) makes it return an error again.
C5_CertifiedMonotonic ==
    [][\A d \in DealerIds :
         /\ (Certified(d) = "nil" <=> ValidCount(d) >= info.R)
         /\ (Certified(d) = "nil" => Certified(d)' = "nil")]_vars

\* A certified Dealer was handed a Response for an index that already has one and refused it.
C5_Witness ==
    /\ ret.op = "AddResponse" /\ ret.err = "DuplicateResponse"
    /\ Certified(ret.who) = "nil"
    /\ ValidCount(ret.who) = info.R

\* C6 as stated: ProduceSharedSecret returns the InsufficientShares error whenever fewer
\* than T of the accepted dealers yield a successful RevealShare (the zero-dealers error
\* of an empty list is counted as that error).
C6_FewSharesInsufficient ==
    ret.op = "ProduceSharedSecret" /\ Cardinality(GoodEntries(ret.who)) < info.T =>
        ret.err \in {"InsufficientShares", "NoDealers"}

\* C6 as amended: with fewer than T entries whose RevealShare succeeds, ProduceSharedSecret
\* returns an error and no SharedSecret: the zero-dealers error for an empty list, the
\* reveal-failure error when some entry's RevealShare fails, and InsufficientShares only
\* when every entry reveals and the list is shorter than T.
C6_FewSharesFail ==
    ret.op = "ProduceSharedSecret" /\ Cardinality(GoodEntries(ret.who)) < info.T =>
        /\ ret.secret = NoSecret
        /\ ret.err = IF Dealers[ret.who] = <<>> THEN "NoDealers"
                     ELSE IF GoodEntries(ret.who) = DOMAIN Dealers[ret.who]
                          THEN "InsufficientShares"
                          ELSE "RevealFailure"

\* A list of one certified dealer, with T = 2, got the InsufficientShares error.
C6_Witness ==
    /\ ret.op = "ProduceSharedSecret" /\ ret.err = "InsufficientShares"
    /\ Len(Dealers[ret.who]) = 1 /\ info.T = 2
    /\ Certified(Dealers[ret.who][1]) = "nil"

\* C7: in the full exchange every AddDealer and AddResponse call succeeds, every Dealer
\* eventually is and stays Certified, and from then on every ProduceSharedSecret succeeds.
C7_FullExchange ==
    /\ [](ret.op \in {"AddDealer", "AddResponse", "ProduceSharedSecret"} => ret.err = "nil")
    /\ <>[](\A d \in DealerIds : Certified(d) = "nil")
    /\ [](ExchangeDone => /\ \A d \in DealerIds : Certified(d) = "nil"
                          /\ \A r \in Receivers : SharedSecret(r).err = "nil")
    /\ <>(ExchangeDone /\ ret.op = "ProduceSharedSecret" /\ ret.err = "nil")

\* The exchange is complete and a Receiver has produced its SharedSecret from T = 2 dealers.
C7_Witness ==
    /\ ExchangeDone
    /\ ret.op = "ProduceSharedSecret" /\ ret.err = "nil"
    /\ info.T = 2 /\ Len(ret.secret.used) = 2

\* C8: a Response produced for index i is refused by AddResponse(j, response) for every
\* j # i, out of range or not: the call returns an error and the State is unchanged.
C8_WrongIndexRefused ==
    [][ret'.op = "AddResponse" =>
         \A j \in IndexArgs, rsp \in sent :
            rsp.index # j /\ AddResponse(ret'.who, j, rsp) =>
               /\ ret'.err # "nil"
               /\ responses' = responses]_vars

\* Every Response in flight is for the Promise of the Dealer that refused one as invalid:
\* it was refused for its index.
C8_Witness ==
    /\ ret.op = "AddResponse" /\ ret.err = "ValidationFailure"
    /\ sent # {}
    /\ \A rsp \in sent : rsp.promise = ret.who
    /\ ValidCount(ret.who) = 0

\* C9: a Receiver's Dealers list holds at most one entry per Dealer, so that no Dealer is
\* aggregated twice by ProduceSharedSecret.
C9_OneEntryPerDealer ==
    /\ \A r \in Receivers : NoDuplicates(Dealers[r])
    /\ (ret.op = "ProduceSharedSecret" /\ ret.err = "nil" =>
          NoDuplicates([k \in DOMAIN ret.secret.used |-> Dealers[ret.who][ret.secret.used[k]]]))

\* C10: every dealer that contributed to a returned SharedSecret is certified at the call:
\* its State holds at least R accepted Responses.
C10_ContributorsCertified ==
    ret.op = "ProduceSharedSecret" /\ ret.err = "nil" =>
        \A k \in Range(ret.secret.used) :
            LET d == Dealers[ret.who][k] IN
            /\ Certified(d) = "nil"
            /\ Cardinality({i \in Indices : responses[d][i] # NoResponse}) >= info.R

\* A SharedSecret was returned by a Receiver that also lists an uncertified Dealer.
C10_Witness ==
    /\ ret.op = "ProduceSharedSecret" /\ ret.err = "nil"
    /\ \E k \in DOMAIN Dealers[ret.who] : Certified(Dealers[ret.who][k]) # "nil"

\* C11: when RevealShare fails for a dealer the scan of ProduceSharedSecret reaches (every
\* dealer before it revealed, fewer than T of them), the call returns the reveal-failure
\* error naming the receiver index and that dealer's position and no SharedSecret, whatever
\* the dealers after it would have revealed.
C11_RevealFailureReturns ==
    ret.op = "ProduceSharedSecret" =>
        LET r == ret.who IN
        /\ \A k \in DOMAIN Dealers[r] :
              ( /\ k <= info.T
                /\ Reveal(r, k).err # "nil"
                /\ \A j \in 1 .. k - 1 : Reveal(r, j).err = "nil" )
              => /\ ret.err = "RevealFailure"
                 /\ ret.at = <<index[r], k - 1>>
                 /\ ret.secret = NoSecret
        /\ (ret.err = "RevealFailure" =>
              /\ ret.at[1] = index[r]
              /\ ret.at[2] + 1 \in DOMAIN Dealers[r]
              /\ Reveal(r, ret.at[2] + 1).err # "nil")

\* The reveal-failure error was returned for the first dealer of a list in which T later
\* dealers all reveal their share.
C11_Witness ==
    /\ ret.op = "ProduceSharedSecret" /\ ret.err = "RevealFailure"
    /\ ret.at = <<index[ret.who], 0>>
    /\ Cardinality(GoodEntries(ret.who)) >= info.T

\* C12: whatever indices AddDealer was called with (-1 included), every entry of a
\* Receiver's Dealers list was added under one index, the r.index that ProduceSharedSecret
\* passes to RevealShare and Check.
C12_SameIndexForAll ==
    \A r \in Receivers : \A k \in DOMAIN addedAt[r] : addedAt[r][k] = index[r]

Contributors(r) == {k \in DOMAIN Dealers[r] : k <= info.T}

\* Entry k of r's list reveals a share that passes Check against its dealer's own public
\* polynomial at the receiver's index.
Honest(r, k) ==
    /\ Reveal(r, k).err = "nil"
    /\ Check(PubPoly(Dealers[r][k]), index[r], Reveal(r, k).share)

\* C14: when every dealer that contributes to the aggregate is honest, ProduceSharedSecret
\* never returns the ConsistencyFailure error: the sum of the shares passes Check against
\* the sum of the public polynomials, started from InitNull.
C14_HonestNeverInconsistent ==
    ret.op = "ProduceSharedSecret" /\ (\A k \in Contributors(ret.who) : Honest(ret.who, k)) =>
        LET r == ret.who
            pos == [k \in 1 .. Cardinality(Contributors(r)) |-> k]
        IN /\ ret.err # "ConsistencyFailure"
           /\ Check(SumPub(r, pos, 1), index[r], SumShare(r, pos, 1))

\* A SharedSecret was returned over two honest dealers, and it is the share of neither.
C14_Witness ==
    /\ ret.op = "ProduceSharedSecret" /\ ret.err = "nil"
    /\ Cardinality(Contributors(ret.who)) = 2
    /\ \A k \in Contributors(ret.who) :
          /\ Honest(ret.who, k)
          /\ ret.secret.Share # Reveal(ret.who, k).share

\* Entry k of r's list is a dealer whose Promise does not validate for this receiver.
FailedValidation(r, k) == ProduceResponse(Dealers[r][k], index[r], r).err # "nil"

\* C15: AddDealer with the bound index, or on an unbound Receiver, appends the dealer once
\* whether or not ProduceResponse succeeded and returns ProduceResponse's error; a dealer
\* whose Promise failed validation is in the list like any other, and a ProduceSharedSecret
\* whose scan reaches it calls its RevealShare: it returns the reveal-failure error naming
\* its position or sums its share.
C15_AppendedWhateverResponse ==
    [][/\ ret'.op = "AddDealer" =>
            \A r \in Receivers, i \in NoIndex .. info.N - 1, d \in DealerIds :
                r = ret'.who /\ index[r] \in {NoIndex, i} /\ AddDealer(r, i, d) =>
                    /\ Dealers'[r] = Append(Dealers[r], d)
                    /\ ret'.err = ProduceResponse(d, i, r).err
                    /\ (ret'.err # "nil" => sent' = sent)
       /\ ret'.op = "ProduceSharedSecret" =>
            LET r == ret'.who IN
            \A k \in Contributors(r) :
                FailedValidation(r, k) /\ (\A j \in 1 .. k - 1 : Reveal(r, j).err = "nil") =>
                    IF Reveal(r, k).err # "nil"
                    THEN ret'.err = "RevealFailure" /\ ret'.at = <<index[r], k - 1>>
                    ELSE \/ ret'.err \in {"InsufficientShares", "ConsistencyFailure"}
                         \/ ret'.err = "nil" /\ k \in Range(ret'.secret.used)]_vars

\* A Receiver whose only dealer failed validation when it was added has summed that
\* dealer's share and found the aggregate inconsistent.
C15_Witness ==
    /\ ret.op = "ProduceSharedSecret" /\ ret.err = "ConsistencyFailure"
    /\ Len(Dealers[ret.who]) = 1
    /\ FailedValidation(ret.who, 1)

\* The indices for which the State of dealer d holds a Response.
Accepted(d) == {i \in Indices : responses[d][i] # NoResponse}

\* C16: the State of a Dealer holds at most one Response per index: an AddResponse for an
\* index that already has one is refused and leaves the State and the count as they are,
\* a call adds at most one index, and a Dealer is certified only with Responses for at
\* least R distinct indices.
C16_OneResponsePerIndex ==
    [][ret'.op = "AddResponse" =>
         \A d \in DealerIds :
            d = ret'.who =>
               /\ \A i \in Accepted(d), rsp \in sent :
                     AddResponse(d, i, rsp) =>
                        /\ ret'.err # "nil"
                        /\ responses' = responses
                        /\ Cardinality(Accepted(d)') = Cardinality(Accepted(d))
               /\ Cardinality(Accepted(d)') <= Cardinality(Accepted(d)) + 1
               /\ (Certified(d)' = "nil" => Cardinality(Accepted(d)') >= info.R)]_vars

\* A Dealer that needs two Responses holds one, was handed a Response for that index again
\* and is still not certified.
C16_Witness ==
    /\ ret.op = "AddResponse" /\ ret.err = "DuplicateResponse"
    /\ info.R = 2
    /\ Cardinality(Accepted(ret.who)) = 1
    /\ Certified(ret.who) # "nil"

\* The list of r holds entries added under different indices.
Mixed(r) == \E j, k \in DOMAIN addedAt[r] : addedAt[r][j] # addedAt[r][k]

\* C17: AddDealer takes no lock and the Receiver's guarantee needs serialized calls.  Of two
\* calls with indices of the matrix, when neither starts while the other runs every entry
\* was added under r.index; entries added under different indices are in one list only
\* after two calls on that Receiver that overlapped and both found r.index == -1, each
\* testing it before the other assigned it, so that both passed the mismatch test.
C17_MixedOnlyByRace ==
    /\ (\A c \in Goroutines : ~calls[c].overlap) =>
          \A r \in Receivers : \A k \in DOMAIN addedAt[r] : addedAt[r][k] = index[r]
    /\ \A r \in Receivers :
          Mixed(r) =>
             /\ \E c \in Goroutines : calls[c].overlap
             /\ \A c \in Goroutines :
                   calls[c].pc = "done" /\ calls[c].r = r /\ calls[c].unbound

\* Two calls with different indices on one unbound Receiver have both returned past the
\* mismatch test, and the list holds both dealers.
C17_Witness ==
    \E r \in Receivers :
        /\ \A c \in Goroutines : calls[c].pc = "done" /\ calls[c].r = r /\ calls[c].unbound
        /\ calls["a"].i # calls["b"].i
        /\ Len(Dealers[r]) = 2
        /\ Mixed(r)
        /\ ret.op = "AddDealer" /\ ret.err # "IndexMismatch"

\* C18: an AddDealer call that returns the index-mismatch error was made on a bound
\* Receiver and changes nothing: the index and the Dealers list are as before the call, and
\* no Response was produced from the refused dealer's Promise.
C18_MismatchChangesNothing ==
    [][ret'.op = "AddDealer" /\ ret'.err = "IndexMismatch" =>
         /\ \A r \in Receivers : r = ret'.who => index[r] # NoIndex
         /\ index' = index
         /\ Dealers' = Dealers
         /\ addedAt' = addedAt
         /\ sent' = sent
         /\ Secret' = Secret
         /\ responses' = responses]_vars

\* A Receiver bound by its one dealer has refused a call with another index.
C18_Witness ==
    /\ ret.op = "AddDealer" /\ ret.err = "IndexMismatch"
    /\ index[ret.who] \in Indices
    /\ addedAt[ret.who] = <<index[ret.who]>>

\* C19: once the index of a Receiver is bound to a value other than -1 no call changes
\* it, and the Dealers list only grows at its end: after any call the list before the call
\* is a prefix of the list.
C19_IndexFixedListAppendOnly ==
    [][\A r \in Receivers :
         /\ (index[r] # NoIndex => index'[r] = index[r])
         /\ Len(Dealers'[r]) >= Len(Dealers[r])
         /\ SubSeq(Dealers'[r], 1, Len(Dealers[r])) = Dealers[r]]_vars

\* A bound Receiver holding two different dealers, in the order it was given them, has
\* been through a ProduceSharedSecret call.
C19_Witness ==
    /\ ret.op = "ProduceSharedSecret"
    /\ index[ret.who] \in Indices
    /\ Len(Dealers[ret.who]) >= 2
    /\ Dealers[ret.who][1] > Dealers[ret.who][2]

\* C20: ProduceSharedSecret, on success and on every error, leaves the Receiver (index,
\* Dealers list, Secret field) and every Dealer's State as they are, and what the call
\* would return from the state it leaves is what it returned: the same error, or a
\* SharedSecret with equal Pub, Share and Index.
C20_ProduceChangesNothing ==
    [][ret'.op = "ProduceSharedSecret" =>
         /\ index' = index
         /\ Dealers' = Dealers
         /\ addedAt' = addedAt
         /\ Secret' = Secret
         /\ responses' = responses
         /\ sent' = sent
         /\ \A r \in Receivers :
               r = ret'.who =>
                  SharedSecret(r)' = [err |-> ret'.err, secret |-> ret'.secret, at |-> ret'.at]]_vars

\* A SharedSecret was returned and the Receiver's Secret field is as Init left it.
C20_Witness ==
    /\ ret.op = "ProduceSharedSecret" /\ ret.err = "nil"
    /\ ret.secret # NoSecret
    /\ Secret[ret.who] = NoSecret

====
